---- MODULE Spec2Model ----
(***************************************************************************)
(* The 2D NPZB model of fjordeco-advection-py.ipynb: the generator npz     *)
(* (leapfrog step, floor clamp, averaging filter, slot rotation) and its   *)
(* driver integrator (archive of the freshly written slot).                *)
(*                                                                         *)
(* Numbers are fixed-point integers.  Concentrations are whole units,      *)
(* velocities are in 1/VScale m/s, rates and tendencies are per day, and   *)
(* every division rounds down.  A masked (missing) array entry is NA, and  *)
(* arithmetic on NA gives NA, as numpy.ma arithmetic propagates the mask.  *)
(***************************************************************************)
EXTENDS Integers, Sequences, FiniteSets, TLC

VARIABLES mask, frc_time, frc_u, frc_v, par,
          N, P, Z, B, u, v,
          n, nprev, ncur, nnext, pc, results

inputs == <<mask, frc_time, frc_u, frc_v, par>>
fields == <<N, P, Z, B>>
triple == <<nprev, ncur, nnext>>
vars == <<mask, frc_time, frc_u, frc_v, par, N, P, Z, B, u, v,
          n, nprev, ncur, nnext, pc, results>>

----------------------------------------------------------------------------
(* Bounds of the model *)
Ny == 4
Nx == 4
NumSamples == 4

(* Constants of the program *)
Navg == 24
dt == 600
Nsave == 7200
SecPerDay == 86400
Damp == 10

(* Forcing-file grid spacing (metres) and the fixed-point velocity scale:  *)
(* a raw velocity above 1 m/s, that is above VScale, is masked on load.    *)
dx == 400
dy == 400
VScale == 12
FillValue == 100 * VScale

(* The masked entry of a numpy.ma array *)
NA == -1000000

Cells == (0 .. Ny - 1) \X (0 .. Nx - 1)
Interior == (1 .. Ny - 2) \X (1 .. Nx - 2)
Ring == Cells \ Interior
Slots == 0 .. 2

----------------------------------------------------------------------------
(* Run inputs: land/sea masks, forcing series, configurations *)

LandSets == { {}, { <<1, 1>> }, { <<0, 0>>, <<1, 2>> } }

MaskOf(land) == [c \in Cells |-> IF c \in land THEN 0 ELSE 1]

FrcDtSet == {7200, 9000}

FirstTimeSet(D) == {0, dt, D}

FrcTimeOf(t0, D) == [k \in 0 .. NumSamples - 1 |-> t0 + k * D]

Patterns == {"zero", "tidal", "landfill", "seafill"}

RawU(pat, land, k, c) ==
    IF pat \in {"landfill", "seafill"} /\ c \in land THEN FillValue
    ELSE IF pat = "seafill" /\ c = <<1, 1>> /\ k = 1 THEN FillValue
    ELSE IF pat = "zero" THEN 0
    ELSE (((k + c[1]) % 3) - 1) * 2

RawV(pat, land, k, c) ==
    IF pat \in {"landfill", "seafill"} /\ c \in land THEN FillValue
    ELSE IF pat = "zero" THEN 0
    ELSE (((k + c[2] + 1) % 3) - 1) * 2

(* frc_u[frc_u>1] = np.ma.masked *)
MaskFast(x) == IF x > VScale THEN NA ELSE x

LoadU(pat, land) ==
    [k \in 0 .. NumSamples - 1 |-> [c \in Cells |-> MaskFast(RawU(pat, land, k, c))]]

LoadV(pat, land) ==
    [k \in 0 .. NumSamples - 1 |-> [c \in Cells |-> MaskFast(RawV(pat, land, k, c))]]

(* Floors, initial levels and the keyword arguments of npz, in the model's  *)
(* whole concentration units and per-day rates (gamma = gamma10 / 10).      *)
(* Every initial level is at or above its floor, as in the notebook; the    *)
(* second configuration has floors the run reaches, the third and fourth    *)
(* have no biology (all rates zero), the fourth no diffusion either.        *)
Configs ==
    { [min_N |-> 1, min_P |-> 1, min_Z |-> 1, min_B |-> 1,
       N0 |-> 15, P0 |-> 10, Z0 |-> 10, B0 |-> 10,
       Vm |-> 36, ks |-> 4, m |-> 7, alpha |-> 4, gamma10 |-> 3,
       Rm |-> 3, ivlev |-> 1, g |-> 10, At |-> 20],
      [min_N |-> 13, min_P |-> 5, min_Z |-> 4, min_B |-> 6,
       N0 |-> 15, P0 |-> 10, Z0 |-> 10, B0 |-> 12,
       Vm |-> 36, ks |-> 4, m |-> 7, alpha |-> 4, gamma10 |-> 3,
       Rm |-> 3, ivlev |-> 1, g |-> 10, At |-> 20],
      [min_N |-> 1, min_P |-> 1, min_Z |-> 1, min_B |-> 1,
       N0 |-> 15, P0 |-> 10, Z0 |-> 10, B0 |-> 10,
       Vm |-> 0, ks |-> 4, m |-> 0, alpha |-> 0, gamma10 |-> 3,
       Rm |-> 0, ivlev |-> 1, g |-> 0, At |-> 20],
      [min_N |-> 1, min_P |-> 1, min_Z |-> 1, min_B |-> 1,
       N0 |-> 15, P0 |-> 10, Z0 |-> 10, B0 |-> 10,
       Vm |-> 0, ks |-> 4, m |-> 0, alpha |-> 0, gamma10 |-> 3,
       Rm |-> 0, ivlev |-> 1, g |-> 0, At |-> 0] }

----------------------------------------------------------------------------
(* Derived parameters *)

frc_dt == frc_time[1] - frc_time[0]
LastTime == frc_time[NumSamples - 1]
NTimes == (LastTime - frc_time[0] + dt - 1) \div dt
TimeAt(i) == frc_time[0] + i * dt
t == TimeAt(n)
total == LastTime \div Nsave

----------------------------------------------------------------------------
(* Masked-array helpers *)

Fill(x, f) == IF x = NA THEN f ELSE x

RECURSIVE SumOver(_, _)
SumOver(g, S) ==
    IF S = {} THEN 0
    ELSE LET c == CHOOSE c \in S : TRUE IN g[c] + SumOver(g, S \ {c})

Mean(g) ==
    LET ok == {c \in Cells : g[c] # NA}
    IN IF ok = {} THEN NA ELSE SumOver(g, ok) \div Cardinality(ok)

SlotOf(F, s) == [c \in Cells |-> F[c][s]]

----------------------------------------------------------------------------
(* Initial fields: a two-region step profile, the same in all three slots *)

InRegion(c) == c[1] < Ny \div 2 /\ c[2] >= Nx \div 2

InitField(msk, inside, outside) ==
    [c \in Cells |-> [s \in Slots |->
        IF msk[c] = 0 THEN NA ELSE IF InRegion(c) THEN inside ELSE outside]]

ZeroField == [c \in Cells |-> 0]

Init ==
    /\ \E land \in LandSets, D \in FrcDtSet, pat \in Patterns :
         \E t0 \in FirstTimeSet(D) :
            /\ mask = MaskOf(land)
            /\ frc_time = FrcTimeOf(t0, D)
            /\ frc_u = LoadU(pat, land)
            /\ frc_v = LoadV(pat, land)
            /\ results = [i \in 0 .. ((t0 + (NumSamples - 1) * D) \div Nsave) - 1 |->
                            [t |-> 0, N |-> ZeroField, P |-> ZeroField,
                             Z |-> ZeroField, B |-> ZeroField]]
    /\ par \in Configs
    /\ N = InitField(mask, par.N0, (par.N0 * 12) \div 10)
    /\ P = InitField(mask, par.P0, par.P0 \div 2)
    /\ Z = InitField(mask, par.Z0, par.Z0 \div 2)
    /\ B = InitField(mask, par.B0, par.B0 \div 2)
    /\ u = ZeroField
    /\ v = ZeroField
    /\ n = 0
    /\ nprev = 0 /\ ncur = 1 /\ nnext = 2
    /\ pc = "loop"

----------------------------------------------------------------------------
(* Forcing interpolation, lines 225-229 *)

(* int(t / frc_dt) and the fraction left, as a remainder out of frc_dt *)
fidx == t \div frc_dt
frac == t % frc_dt

Lerp(a, b) ==
    IF a = NA \/ b = NA THEN NA
    ELSE ((frc_dt - frac) * a + frac * b) \div frc_dt

Interp(frc) == [c \in Cells |-> Lerp(frc[fidx][c], frc[fidx + 1][c])]

----------------------------------------------------------------------------
(* One leapfrog step at an interior cell, lines 231-301 *)

East(c) == <<c[1], c[2] + 1>>
West(c) == <<c[1], c[2] - 1>>
North(c) == <<c[1] + 1, c[2]>>
South(c) == <<c[1] - 1, c[2]>>
SouthWest(c) == <<c[1] - 1, c[2] - 1>>

nfill == Mean(SlotOf(N, ncur))
pfill == Mean(SlotOf(P, ncur))
zfill == Mean(SlotOf(Z, ncur))
bfill == Mean(SlotOf(B, ncur))
ufill == Mean(u)
vfill == Mean(v)

(* up/downwelling, per day; w is a plain array, filled where u or v is masked *)
w(c) ==
    ( ((Fill(u[c], ufill) - Fill(u[West(c)], ufill)) * SecPerDay) \div (dx * VScale)
    + ((Fill(v[c], vfill) - Fill(v[South(c)], vfill)) * SecPerDay) \div (dy * VScale) )
    \div Damp

(* 1 - exp(-x) for a whole x >= 0, as the fraction ExpNum(x) / ExpDen(x) *)
ExpNum(x) == 2 * x + x * x
ExpDen(x) == 2 + 2 * x + x * x

(* the uptake at a fixed Vm, whatever the keyword argument *)
uptakeDefaultVm(c) ==
    IF NA \in {P[c][ncur], N[c][ncur]} THEN NA
    ELSE (36 * P[c][ncur] * N[c][ncur]) \div (par.ks + N[c][ncur])

uptake(c) ==
    IF NA \in {P[c][ncur], N[c][ncur]} THEN NA
    ELSE (par.Vm * P[c][ncur] * N[c][ncur]) \div (par.ks + N[c][ncur])

pmortality(c) == IF P[c][ncur] = NA THEN NA ELSE par.m * P[c][ncur]

graze(c) ==
    IF NA \in {P[c][ncur], Z[c][ncur]} THEN NA
    ELSE LET x == par.ivlev * P[c][ncur]
         IN (x * par.Rm * ExpNum(x) * Z[c][ncur]) \div ExpDen(x)

zmortality(c) == IF Z[c][ncur] = NA THEN NA ELSE par.g * Z[c][ncur]

binput(c) == IF P[c][ncur] = NA THEN NA ELSE par.alpha * P[c][ncur]

upwell(c) ==
    IF NA \in {N[c][ncur], B[c][ncur]} THEN NA
    ELSE w(c) * (N[c][ncur] - B[c][ncur])

(* 0.5 * idx * u * (east - west) at the current level, per day *)
zonal(F, fill, c) ==
    IF u[c] = NA THEN NA
    ELSE (u[c] * (Fill(F[East(c)][ncur], fill) - Fill(F[West(c)][ncur], fill))
          * SecPerDay) \div (2 * dx * VScale)

meridional(F, fill, c) ==
    IF v[c] = NA THEN NA
    ELSE (v[c] * (Fill(F[North(c)][ncur], fill) - Fill(F[South(c)][ncur], fill))
          * SecPerDay) \div (2 * dy * VScale)

(* At * idx2 * (east - 2 centre + west) at the previous level, per day *)
diffx(F, fill, c) ==
    (par.At * (Fill(F[East(c)][nprev], fill) - 2 * Fill(F[c][nprev], fill)
               + Fill(F[West(c)][nprev], fill)) * SecPerDay) \div (dx * dx)

(* At * idy2 * (north - 2 centre + s) at the previous level; s is the cell   *)
(* the code reads as the southern neighbour                                  *)
diffy(F, fill, c, s) ==
    (par.At * (Fill(F[North(c)][nprev], fill) - 2 * Fill(F[c][nprev], fill)
               + Fill(F[s][nprev], fill)) * SecPerDay) \div (dy * dy)

(* Ten times the reaction and vertical-coupling part of each tendency, per  *)
(* day (gamma = gamma10 / 10): the terms after the diffusion in each update *)
ReactN(c) ==
    IF NA \in {upwell(c), uptake(c), pmortality(c), zmortality(c), graze(c)} THEN NA
    ELSE 10 * (- upwell(c) - uptake(c) + pmortality(c) + zmortality(c))
         + par.gamma10 * graze(c)

ReactP(c) ==
    IF NA \in {uptake(c), pmortality(c), graze(c), binput(c)} THEN NA
    ELSE 10 * (uptake(c) - pmortality(c) - graze(c) - binput(c))

ReactZ(c) ==
    IF NA \in {graze(c), zmortality(c)} THEN NA
    ELSE (10 - par.gamma10) * graze(c) - 10 * zmortality(c)

(* the benthic input left out of the benthos *)
ReactBNoInput(c) ==
    IF NA \in {upwell(c), binput(c)} THEN NA
    ELSE 10 * upwell(c)

ReactB(c) ==
    IF NA \in {upwell(c), binput(c)} THEN NA
    ELSE 10 * (upwell(c) + binput(c))

(* Ten times the tendency of each field, per day: advection, diffusion and  *)
(* the reaction part                                                        *)
TendN(c) ==
    LET zo == zonal(N, nfill, c)
        me == meridional(N, nfill, c)
    IN IF NA \in {zo, me, ReactN(c)}
       THEN NA
       ELSE 10 * (- zo - me
                  + diffx(N, nfill, c) + diffy(N, nfill, c, South(c)))
            + ReactN(c)

TendP(c) ==
    LET zo == zonal(P, pfill, c)
        me == meridional(P, pfill, c)
    IN IF NA \in {zo, me, ReactP(c)}
       THEN NA
       ELSE 10 * (- zo - me
                  + diffx(P, pfill, c) + diffy(P, pfill, c, SouthWest(c)))
            + ReactP(c)

TendZ(c) ==
    LET zo == zonal(Z, zfill, c)
        me == meridional(Z, zfill, c)
    IN IF NA \in {zo, me, ReactZ(c)}
       THEN NA
       ELSE 10 * (- zo - me
                  + diffx(Z, zfill, c) + diffy(Z, zfill, c, SouthWest(c)))
            + ReactZ(c)

TendB(c) == ReactB(c)

(* previous + 2 * dt * tendency *)
Leap(prev, tend10) ==
    IF prev = NA \/ tend10 = NA THEN NA
    ELSE prev + (2 * dt * tend10) \div (SecPerDay * 10)

(* F[j, i, nnext] = ... : the interior of the next slot, data and mask *)
WriteNext(F, val) ==
    [c \in Cells |-> IF c \in Interior THEN [F[c] EXCEPT ![nnext] = val[c]] ELSE F[c]]

NextN(c) == Leap(N[c][nprev], TendN(c))
NextP(c) == Leap(P[c][nprev], TendP(c))
NextZ(c) == Leap(Z[c][nprev], TendZ(c))
NextB(c) == Leap(B[c][nprev], TendB(c))

----------------------------------------------------------------------------
(* Clamp, filter, rotation, lines 303-322 *)

(* the clamp left out *)
ClampSkipped(F, lo) == F

(* the clamp taken over the raw data, so that a masked entry gets the floor *)
ClampData(F, lo) ==
    [c \in Cells |-> [s \in Slots |-> IF F[c][s] < lo THEN lo ELSE F[c][s]]]

(* F[:] = np.maximum(F[:], lo): every slot, the mask kept *)
ClampField(F, lo) ==
    [c \in Cells |-> [s \in Slots |->
        IF F[c][s] = NA THEN NA ELSE IF F[c][s] < lo THEN lo ELSE F[c][s]]]

(* 0.5 applied to the second operand only *)
AvgNoParen(a, b) == IF a = NA \/ b = NA THEN NA ELSE a + b \div 2

Avg(a, b) == IF a = NA \/ b = NA THEN NA ELSE (a + b) \div 2

(* the second assignment written to the previous slot *)
FilterWrongSlot(F, pr, cu, nx) ==
    [c \in Cells |-> [s \in Slots |->
        IF s = nx THEN (IF NA \in {F[c][nx], F[c][cu]} THEN NA
                        ELSE (F[c][nx] + F[c][cu]) \div 2)
        ELSE IF s = pr THEN (IF NA \in {F[c][pr], F[c][cu]} THEN NA
                             ELSE (F[c][pr] + F[c][cu]) \div 2)
        ELSE F[c][s]]]

(* the two assignments in the other order: next reads the filtered current *)
FilterCurFirst(F, pr, cu, nx) ==
    [c \in Cells |-> [s \in Slots |->
        LET cur == IF NA \in {F[c][pr], F[c][cu]} THEN NA
                   ELSE (F[c][pr] + F[c][cu]) \div 2
        IN IF s = cu THEN cur
           ELSE IF s = nx THEN (IF NA \in {F[c][nx], cur} THEN NA
                                ELSE (F[c][nx] + cur) \div 2)
           ELSE F[c][s]]]

(* next = 0.5 * (next + current), then current = 0.5 * (previous + current):  *)
(* the second line still reads the unfiltered current slot                    *)
FilterField(F, pr, cu, nx) ==
    [c \in Cells |-> [s \in Slots |->
        IF s = nx THEN Avg(F[c][nx], F[c][cu])
        ELSE IF s = cu THEN Avg(F[c][pr], F[c][cu])
        ELSE F[c][s]]]

(* the first step left out of the cadence *)
FilterDueAfterFirst(i) == i > 0 /\ i % Navg = 0

FilterDue(i) == i % Navg = 0

(* previous and current exchanged, next kept *)
RotateSwap(tr) == <<tr[2], tr[1], tr[3]>>

Rotate(tr) == <<tr[2], tr[3], tr[1]>>

----------------------------------------------------------------------------
(* The generator npz *)

Forcing ==
    /\ pc = "loop"
    /\ n < NTimes
    /\ fidx + 1 <= NumSamples - 1
    /\ u' = Interp(frc_u)
    /\ v' = Interp(frc_v)
    /\ pc' = "forced"
    /\ UNCHANGED <<inputs, fields, n, triple, results>>

(* frc_u[fidx + 1] past the last sample raises IndexError *)
ForcingIndexError ==
    /\ pc = "loop"
    /\ n < NTimes
    /\ fidx + 1 > NumSamples - 1
    /\ pc' = "error"
    /\ UNCHANGED <<inputs, fields, u, v, n, triple, results>>

Update ==
    /\ pc = "forced"
    /\ N' = WriteNext(N, [c \in Interior |-> NextN(c)])
    /\ P' = WriteNext(P, [c \in Interior |-> NextP(c)])
    /\ Z' = WriteNext(Z, [c \in Interior |-> NextZ(c)])
    /\ B' = WriteNext(B, [c \in Interior |-> NextB(c)])
    /\ pc' = "updated"
    /\ UNCHANGED <<inputs, u, v, n, triple, results>>

Clamp ==
    /\ pc = "updated"
    /\ N' = ClampField(N, par.min_N)
    /\ P' = ClampField(P, par.min_P)
    /\ Z' = ClampField(Z, par.min_Z)
    /\ B' = ClampField(B, par.min_B)
    /\ pc' = "clamped"
    /\ UNCHANGED <<inputs, u, v, n, triple, results>>

(* the averaging step when due, then the yield of (n, nnext, t) *)
Filter ==
    /\ pc = "clamped"
    /\ IF FilterDue(n)
       THEN /\ N' = FilterField(N, nprev, ncur, nnext)
            /\ P' = FilterField(P, nprev, ncur, nnext)
            /\ Z' = FilterField(Z, nprev, ncur, nnext)
       ELSE UNCHANGED <<N, P, Z>>
    /\ pc' = "yielded"
    /\ UNCHANGED <<inputs, B, u, v, n, triple, results>>

(* resumed by the driver: cycle the records, then the loop takes the next n; *)
(* n is the index enumerate hands out next, so it counts the rotations done  *)
Cycle ==
    /\ pc = "resume"
    /\ nprev' = Rotate(triple)[1]
    /\ ncur' = Rotate(triple)[2]
    /\ nnext' = Rotate(triple)[3]
    /\ n' = n + 1
    /\ pc' = "loop"
    /\ UNCHANGED <<inputs, fields, u, v, results>>

Exhaust ==
    /\ pc = "loop"
    /\ n >= NTimes
    /\ pc' = "exhausted"
    /\ UNCHANGED <<inputs, fields, u, v, n, triple, results>>

----------------------------------------------------------------------------
(* The driver integrator, lines 340-362 *)

SaveDue == t % Nsave = 0
idx == t \div Nsave

Snapshot ==
    [t |-> t, N |-> SlotOf(N, nnext), P |-> SlotOf(P, nnext),
     Z |-> SlotOf(Z, nnext), B |-> SlotOf(B, nnext)]

Save ==
    /\ pc = "yielded"
    /\ IF SaveDue
       THEN /\ idx < total
            /\ results' = [results EXCEPT ![idx] = Snapshot]
       ELSE UNCHANGED results
    /\ pc' = "resume"
    /\ UNCHANGED <<inputs, fields, u, v, n, triple>>

(* results[...][idx] with idx = total raises IndexError *)
SaveIndexError ==
    /\ pc = "yielded"
    /\ SaveDue
    /\ idx >= total
    /\ pc' = "error"
    /\ UNCHANGED <<inputs, fields, u, v, n, triple, results>>

Return ==
    /\ pc = "exhausted"
    /\ pc' = "returned"
    /\ UNCHANGED <<inputs, fields, u, v, n, triple, results>>

Next ==
    \/ Forcing
    \/ ForcingIndexError
    \/ Update
    \/ Clamp
    \/ Filter
    \/ Save
    \/ SaveIndexError
    \/ Cycle
    \/ Exhaust
    \/ Return

Spec == Init /\ [][Next]_vars

TypeOK ==
    /\ pc \in {"loop", "forced", "updated", "clamped", "yielded", "resume",
               "exhausted", "returned", "error"}
    /\ n \in 0 .. NTimes
    /\ \A c \in Cells : \A s \in Slots :
          \A x \in {N[c][s], P[c][s], Z[c][s], B[c][s]} : x = NA \/ (x > -1000 /\ x < 1000)

----------------------------------------------------------------------------
(* Vocabulary of the properties *)

Sea == {c \in Cells : mask[c] = 1}
Land == {c \in Cells : mask[c] = 0}
StepPcs == {"forced", "updated", "clamped"}

FloorOf(name) ==
    CASE name = "N" -> par.min_N
      [] name = "P" -> par.min_P
      [] name = "Z" -> par.min_Z
      [] name = "B" -> par.min_B

FieldNames == {"N", "P", "Z", "B"}
Now(name) == CASE name = "N" -> N [] name = "P" -> P [] name = "Z" -> Z [] name = "B" -> B

(* the triple after k rotations of (0, 1, 2) *)
AfterRotations(k) ==
    CASE k % 3 = 0 -> <<0, 1, 2>>
      [] k % 3 = 1 -> <<1, 2, 0>>
      [] k % 3 = 2 -> <<2, 0, 1>>

InitialN == InitField(mask, par.N0, (par.N0 * 12) \div 10)
InitialP == InitField(mask, par.P0, par.P0 \div 2)
InitialZ == InitField(mask, par.Z0, par.Z0 \div 2)
InitialB == InitField(mask, par.B0, par.B0 \div 2)

(* no value that is present lies below its floor *)
NoValueBelowFloor ==
    \A name \in FieldNames : \A c \in Cells : \A s \in Slots :
        Now(name)[c][s] = NA \/ Now(name)[c][s] >= FloorOf(name)

----------------------------------------------------------------------------
(* C1: at every yield, every sea cell of every slot of N, P, Z and B holds *)
(* a value (it is not missing) and that value is at least the field's      *)
(* configured minimum.                                                     *)
C1_FloorAtYield ==
    pc = "yielded" =>
        \A name \in FieldNames : \A c \in Sea : \A s \in Slots :
            /\ Now(name)[c][s] # NA
            /\ Now(name)[c][s] >= FloorOf(name)

(* C2: the triple starts as (0, 1, 2), is always a permutation of {0, 1, 2}, *)
(* is the k-fold rotation of (0, 1, 2) after k rotations (so it is back at   *)
(* (0, 1, 2) exactly when k is a multiple of 3), and the step that rotates   *)
(* maps (previous, current, next) to (current, next, previous) and changes   *)
(* no slot of N, P, Z or B.                                                  *)
C2_SlotRotation ==
    /\ triple = <<0, 1, 2>>
    /\ [](/\ {nprev, ncur, nnext} = {0, 1, 2}
          /\ triple = AfterRotations(n)
          /\ (triple = <<0, 1, 2>> <=> n % 3 = 0))
    /\ [][/\ pc = "resume" => triple' = <<ncur, nnext, nprev>>
          /\ triple' # triple => pc = "resume" /\ fields' = fields /\ results' = results ]_vars

C2_Witness == pc = "loop" /\ n = 3 /\ triple = <<0, 1, 2>> /\ N # InitialN

(* C3 as stated: every action of a step (update, clamp, filter) leaves the *)
(* previous and the current slot of N, P, Z and B as they were.            *)
C3_StepWritesOnlyNext ==
    [][(pc \in StepPcs) =>
          /\ \A c \in Cells : N'[c][nprev] = N[c][nprev] /\ N'[c][ncur] = N[c][ncur]
          /\ \A c \in Cells : P'[c][nprev] = P[c][nprev] /\ P'[c][ncur] = P[c][ncur]
          /\ \A c \in Cells : Z'[c][nprev] = Z[c][nprev] /\ Z'[c][ncur] = Z[c][ncur]
          /\ \A c \in Cells : B'[c][nprev] = B[c][nprev] /\ B'[c][ncur] = B[c][ncur] ]_vars

(* the current slot after an action of a step: averaged with the previous  *)
(* slot by the filter when it is due, untouched otherwise                  *)
C3_CurAfter(F, c) ==
    IF pc = "clamped" /\ n % Navg = 0
    THEN (IF F[c][nprev] = NA \/ F[c][ncur] = NA THEN NA
          ELSE (F[c][nprev] + F[c][ncur]) \div 2)
    ELSE F[c][ncur]

(* C3 amended: every action of a step leaves the previous slot of N, P, Z  *)
(* and B and the current slot of B as they were; the current slot of N, P  *)
(* and Z is left as it was except by the filter on a step where it is due, *)
(* which replaces it by the average of the previous and current slots.     *)
C3_StepWritesNextAndFilteredCur ==
    [][(pc \in StepPcs) =>
          /\ \A c \in Cells : N'[c][nprev] = N[c][nprev] /\ N'[c][ncur] = C3_CurAfter(N, c)
          /\ \A c \in Cells : P'[c][nprev] = P[c][nprev] /\ P'[c][ncur] = C3_CurAfter(P, c)
          /\ \A c \in Cells : Z'[c][nprev] = Z[c][nprev] /\ Z'[c][ncur] = C3_CurAfter(Z, c)
          /\ \A c \in Cells : B'[c][nprev] = B[c][nprev] /\ B'[c][ncur] = B[c][ncur] ]_vars

C3_Witness ==
    /\ pc = "yielded" /\ n = Navg
    /\ \E c \in Interior :
          /\ NA \notin {Z[c][nprev], Z[c][ncur], Z[c][nnext]}
          /\ Z[c][nprev] # Z[c][ncur]
          /\ Z[c][ncur] # Z[c][nnext]

(* C4: on every step the integrator starts, the sample indices fidx and    *)
(* fidx + 1 it reads are indices of the forcing series.                    *)
C4_ForcingInBounds ==
    (pc = "loop" /\ n < NTimes) => (fidx >= 0 /\ fidx + 1 <= NumSamples - 1)

(* C5: when the model time of a step is the timestamp of forcing sample k, *)
(* counted from the first forcing timestamp, the u and v of that step are  *)
(* sample k unmodified.                                                    *)
C5_ExactAtSample ==
    (pc = "forced" /\ (t - frc_time[0]) % frc_dt = 0) =>
        /\ u = frc_u[(t - frc_time[0]) \div frc_dt]
        /\ v = frc_v[(t - frc_time[0]) \div frc_dt]

(* C6 as stated: when a step has been handed to the caller, the rotation   *)
(* of that step has been done too: after the hand-off of step n the triple *)
(* has been rotated n + 1 times.                                           *)
C6_NothingPendingAtHandOff ==
    pc = "yielded" => triple = AfterRotations(n + 1)

(* C6 amended: a step is handed to the caller only by the filter phase,    *)
(* which follows the clamp, which follows the update of all four fields,   *)
(* so at the hand-off no value lies below its floor and the filter, when   *)
(* due, has averaged the next slot; the rotation of that step is still     *)
(* pending at the hand-off (the triple has been rotated n times, not       *)
(* n + 1) and is done only when the caller resumes the generator.          *)
C6_HandOffBeforeRotation ==
    /\ [](pc = "yielded" => triple = AfterRotations(n) /\ NoValueBelowFloor)
    /\ [][/\ pc' = "yielded" =>
                /\ pc = "clamped"
                /\ n % Navg = 0 =>
                      \A c \in Cells :
                          NA \in {N[c][nnext], N[c][ncur]}
                          \/ N'[c][nnext] = (N[c][nnext] + N[c][ncur]) \div 2
          /\ pc' = "clamped" => pc = "updated"
          /\ pc' = "updated" =>
                /\ pc = "forced"
                /\ \A c \in Interior :
                      /\ N'[c][nnext] = NextN(c) /\ P'[c][nnext] = NextP(c)
                      /\ Z'[c][nnext] = NextZ(c) /\ B'[c][nnext] = NextB(c)
          /\ pc = "yielded" => triple' = triple /\ fields' = fields
          /\ pc = "resume" => triple' = <<ncur, nnext, nprev>> ]_vars

C6_Witness ==
    /\ pc = "yielded" /\ n = Navg
    /\ triple = AfterRotations(Navg)
    /\ triple # AfterRotations(Navg + 1)

(* C7: every land cell is missing in all three slots of N, P, Z and B in   *)
(* every state, and every archive entry that has been written has its land *)
(* cells missing (an entry not written yet is still the zero entry it was  *)
(* allocated as).                                                          *)
C7_LandStaysMissing ==
    /\ \A name \in FieldNames : \A c \in Land : \A s \in Slots : Now(name)[c][s] = NA
    /\ \A i \in DOMAIN results :
          \/ results[i] = [t |-> 0, N |-> ZeroField, P |-> ZeroField,
                           Z |-> ZeroField, B |-> ZeroField]
          \/ \A c \in Land :
                /\ results[i].N[c] = NA /\ results[i].P[c] = NA
                /\ results[i].Z[c] = NA /\ results[i].B[c] = NA

C7_Witness ==
    /\ pc = "resume" /\ n = Navg
    /\ Land \cap Interior # {} /\ Land \cap Ring # {}
    /\ results[2].t = 2 * Nsave
    /\ \E c \in Sea \cap Interior : results[2].N[c] # NA

(* C8: at every yield every sea cell of N, P, Z and B holds a value that   *)
(* is not missing in the slot the step wrote, whatever the forcing.        *)
C8_SeaCellsStayValid ==
    pc = "yielded" =>
        \A name \in FieldNames : \A c \in Sea : Now(name)[c][nnext] # NA

(* C9: every sea cell of the outermost ring holds its initial value in all *)
(* three slots of N, P, Z and B in every state.                            *)
C9_RingFrozen ==
    \A c \in Ring \cap Sea : \A s \in Slots :
        /\ N[c][s] = InitialN[c][s] /\ N[c][s] # NA
        /\ P[c][s] = InitialP[c][s] /\ P[c][s] # NA
        /\ Z[c][s] = InitialZ[c][s] /\ Z[c][s] # NA
        /\ B[c][s] = InitialB[c][s] /\ B[c][s] # NA

C9_Witness ==
    /\ pc = "yielded" /\ n = Navg
    /\ \E c \in Interior : N[c][nnext] # NA /\ N[c][nnext] # InitialN[c][nnext]
    /\ \E c \in Interior : N[c][nnext] = par.min_N

(* the filter's result at one cell of one field, from the values p, c, x   *)
(* of the previous, current and next slot just before it                   *)
C10_Filtered(F, G, cell) ==
    /\ G[cell][nprev] = F[cell][nprev]
    /\ G[cell][ncur] = (IF NA \in {F[cell][nprev], F[cell][ncur]} THEN NA
                        ELSE (F[cell][nprev] + F[cell][ncur]) \div 2)
    /\ G[cell][nnext] = (IF NA \in {F[cell][nnext], F[cell][ncur]} THEN NA
                         ELSE (F[cell][nnext] + F[cell][ncur]) \div 2)

(* C10: on a step where the filter is due, with p, c, x the previous,      *)
(* current and next values of a cell of N, P or Z just before the filter,  *)
(* afterwards next = (x + c) / 2 and current = (p + c) / 2, both from the  *)
(* unfiltered c, and previous is p; every slot of B is unchanged.          *)
C10_ModeFilterResult ==
    [][(pc = "clamped" /\ n % Navg = 0) =>
          /\ \A c \in Cells : C10_Filtered(N, N', c)
          /\ \A c \in Cells : C10_Filtered(P, P', c)
          /\ \A c \in Cells : C10_Filtered(Z, Z', c)
          /\ B' = B ]_vars

C10_Witness ==
    /\ pc = "yielded" /\ n = Navg
    /\ \E c \in Interior :
          /\ NA \notin {P[c][nprev], P[c][ncur], P[c][nnext]}
          /\ P[c][nprev] # P[c][ncur]
          /\ P[c][ncur] # P[c][nnext]
          /\ P[c][nprev] # P[c][nnext]

(* the run of the zero-biology scenario: all five rates zero and every     *)
(* forcing sample zero at every cell                                       *)
ZeroBiology ==
    par.Vm = 0 /\ par.m = 0 /\ par.Rm = 0 /\ par.g = 0 /\ par.alpha = 0

ZeroVelocity ==
    \A k \in 0 .. NumSamples - 1 : \A c \in Cells : frc_u[k][c] = 0 /\ frc_v[k][c] = 0

(* C11 as stated: with zero biology and zero velocity, for any diffusivity *)
(* and the two-region initial profile, every slot of N, P, Z and B at      *)
(* every cell equals its initial value after every step.                   *)
C11_ZeroBiologySteady ==
    (ZeroBiology /\ ZeroVelocity /\ pc = "yielded") =>
        N = InitialN /\ P = InitialP /\ Z = InitialZ /\ B = InitialB

(* C11 amended: with zero biology and zero velocity every slot of B equals *)
(* its initial value in every state for any diffusivity, and every slot of *)
(* N, P and Z equals its initial value in every state when the diffusivity *)
(* At is zero; with At > 0 the diffusion terms change N, P and Z where the *)
(* initial profile is not uniform.                                         *)
C11_ZeroBiologyNoDiffusionSteady ==
    (ZeroBiology /\ ZeroVelocity) =>
        /\ B = InitialB
        /\ par.At = 0 => (N = InitialN /\ P = InitialP /\ Z = InitialZ)

C11_Witness ==
    /\ ZeroBiology /\ ZeroVelocity /\ par.At = 0
    /\ pc = "yielded" /\ n = Navg
    /\ \E c, d \in Interior \cap Sea : InitialN[c][ncur] # InitialN[d][ncur]
    /\ Land \cap Interior # {}

(* C12: on every step, at every interior sea cell, the reaction and        *)
(* vertical-coupling parts of the four tendencies (the terms added after   *)
(* advection and diffusion, before the clamp and the filter) sum to zero,  *)
(* and with the upwell term returned to N and the benthic input returned   *)
(* to P the uptake, mortality and grazing terms of N, P and Z sum to zero  *)
(* on their own, so what B receives is exactly the upwell taken from N     *)
(* plus the benthic input taken from P; at a cell whose current values are *)
(* missing all four parts are missing and nothing is added to any field.   *)
C12_ReactionMassBalance ==
    pc = "forced" =>
        \A c \in Interior \cap Sea :
            IF NA \in {N[c][ncur], P[c][ncur], Z[c][ncur], B[c][ncur]}
            THEN ReactN(c) = NA /\ ReactP(c) = NA /\ ReactZ(c) = NA /\ ReactB(c) = NA
            ELSE /\ NA \notin {ReactN(c), ReactP(c), ReactZ(c), ReactB(c)}
                 /\ ReactN(c) + ReactP(c) + ReactZ(c) + ReactB(c) = 0
                 /\ (ReactN(c) + 10 * upwell(c)) + (ReactP(c) + 10 * binput(c))
                        + ReactZ(c) = 0

C12_Witness ==
    /\ pc = "forced" /\ n > Navg
    /\ \E c \in Interior \cap Sea :
          /\ NA \notin {N[c][ncur], P[c][ncur], Z[c][ncur], B[c][ncur]}
          /\ upwell(c) # 0 /\ binput(c) > 0 /\ uptake(c) > 0
          /\ zmortality(c) > 0 /\ pmortality(c) > 0
          /\ (par.gamma10 * graze(c)) % 10 # 0
    /\ \E c \in Interior \cap Sea : N[c][ncur] = NA

(* C13: the filter phase of step n (n counted from 0 by the loop) averages *)
(* the current and next slots of N, P and Z if and only if n is a multiple *)
(* of Navg, so it does on the first step n = 0; on every other step the    *)
(* filter phase changes no slot of any field, and outside the update, the  *)
(* clamp and the filter phase of a step no field changes at all.           *)
C13_FilterCadence ==
    [][/\ (pc = "clamped" /\ n % Navg = 0) =>
              \A c \in Cells :
                  C10_Filtered(N, N', c) /\ C10_Filtered(P, P', c) /\ C10_Filtered(Z, Z', c)
       /\ (pc = "clamped" /\ n % Navg # 0) => fields' = fields
       /\ pc \notin {"forced", "updated", "clamped"} => fields' = fields ]_vars

C13_Witness ==
    /\ pc = "yielded" /\ n = Navg + 1
    /\ \E c \in Interior :
          /\ NA \notin {P[c][nprev], P[c][ncur], P[c][nnext]}
          /\ P[c][nprev] # P[c][ncur]
          /\ P[c][ncur] # P[c][nnext]

(* the advection-diffusion form of the N update applied to a field F: the  *)
(* meridional diffusion reads the southern neighbour in the same column    *)
C14_SymmetricTend(F, fill, c, react) ==
    LET zo == zonal(F, fill, c)
        me == meridional(F, fill, c)
    IN IF NA \in {zo, me, react} THEN NA
       ELSE 10 * (- zo - me + diffx(F, fill, c) + diffy(F, fill, c, South(c))) + react

(* C14: on every step and at every interior cell the tendencies of P and Z *)
(* are the advection-diffusion form of the N update applied to P and Z,    *)
(* with the meridional diffusion taken over the north, centre and south    *)
(* neighbours of the same column, so the values written to the next slot   *)
(* of P and Z are the ones that form gives.                                *)
C14_SameStencilAsN ==
    pc = "forced" =>
        \A c \in Interior :
            /\ TendN(c) = C14_SymmetricTend(N, nfill, c, ReactN(c))
            /\ TendP(c) = C14_SymmetricTend(P, pfill, c, ReactP(c))
            /\ TendZ(c) = C14_SymmetricTend(Z, zfill, c, ReactZ(c))
            /\ NextP(c) = Leap(P[c][nprev], C14_SymmetricTend(P, pfill, c, ReactP(c)))
            /\ NextZ(c) = Leap(Z[c][nprev], C14_SymmetricTend(Z, zfill, c, ReactZ(c)))

(* C15: the generator hands over one step for each n = 0, 1, 2, ... whose  *)
(* time t = t0 + n * dt lies before the last forcing timestamp, each with  *)
(* the triple rotated n times so that the slot handed over is the one the  *)
(* step wrote; no step is lost to an exception in the generator or in the  *)
(* driver, and the driver returns only after all of these steps.           *)
C15_StepsThenReturn ==
    /\ pc = "yielded" =>
          /\ t = frc_time[0] + n * dt /\ t < LastTime
          /\ nnext = AfterRotations(n)[3]
    /\ pc \in {"exhausted", "returned"} =>
          /\ frc_time[0] + n * dt >= LastTime
          /\ n > 0 => frc_time[0] + (n - 1) * dt < LastTime
    /\ pc # "error"

(* C16: whenever the driver is about to store a step (its time is a        *)
(* multiple of Nsave), the index it writes to is an index of the archive,  *)
(* which has int(last forcing timestamp / Nsave) entries.                  *)
C16_ArchiveIndexInBounds ==
    (pc = "yielded" /\ SaveDue) => (idx >= 0 /\ idx < total /\ idx \in DOMAIN results)

====
